---------------------------- MODULE Spec2Model ----------------------------
(***************************************************************************)
(* A model of sp-tweak-indexer (tweak-indexer/src/{main,chain,database}.rs) *)
(*                                                                         *)
(*  - the tweak pipeline Chain::process_transaction, as an operator;       *)
(*  - the block dispatcher Chain::process_transactions, as a state machine *)
(*    of one spawned task per transaction, joined in submission order;     *)
(*  - the orchestrator index_blocks over the SQLite store and the node.    *)
(*                                                                         *)
(* Conventions: Option<T> is a sequence of length at most one (<<>> is     *)
(* None, <<x>> is Some(x)); a Vec is a sequence; a String is a string.     *)
(***************************************************************************)
EXTENDS Integers, Sequences, FiniteSets, TLC

(***************************************************************************)
(* Bounds of the model.                                                    *)
(***************************************************************************)
MaxTxs == 2          \* transactions of a block handed to the dispatcher
MaxInputs == 2       \* inputs of a transaction
MaxCache == 2        \* entries of a previous-output batch
MaxSize == 3         \* cache entries plus inputs of one pipeline scenario
MaxCalls == 1        \* calls of process_transactions in a behaviour
MaxRows == 3         \* rows of the tweaks table
MaxNewBlocks == 1    \* blocks the node gains above the first taproot height
MaxReorgs == 1       \* heights whose block the node replaces
NumPrevTx == 2       \* distinct previous transaction ids
MaxVout == 1         \* output indexes 0..MaxVout
KeyOrder == 3        \* public keys are the non-zero elements of Z_KeyOrder

(***************************************************************************)
(* Values.                                                                 *)
(***************************************************************************)
FirstTaprootBlock == 709632     \* main.rs:66
DefaultBlocks == 10             \* main.rs:100
\* a height below the first taproot height
LowHeight == FirstTaprootBlock - 1

\* u32::MAX, the vout of OutPoint::null(); written -1, outside 0..MaxVout
NullVout == 0 - 1

\* Txid::all_zeros(), the txid of OutPoint::null()
NullTxid == 0
PrevTxids == 1..NumPrevTx
\* ids of the transactions of a block (disjoint from the previous txids)
BlockTxid(i) == NumPrevTx + i

\* Txid::to_string(): the hex text of a txid
TxidHex == <<"00", "01", "02", "03", "04", "05", "06", "07", "08", "09", "0a", "0b">>
txid_to_string(t) == TxidHex[t + 1]

OutPointNull == [txid |-> NullTxid, vout |-> NullVout]
\* a null test that never recognises the sentinel
is_null_never(previous_output) == FALSE

is_null(previous_output) ==
    previous_output.txid = NullTxid /\ previous_output.vout = NullVout

\* Scripts, named by their kind; witness_version() is the bitcoin crate's
\* answer for each (-1 stands for None: not a witness program).
NoWitnessVersion == 0 - 1
Scripts == {"p2pkh", "p2wpkh", "p2tr", "wv2", "wv16"}
witness_version(script) ==
    CASE script = "p2wpkh" -> 0
      [] script = "p2tr"   -> 1
      [] script = "wv2"    -> 2
      [] script = "wv16"   -> 16
      [] OTHER             -> NoWitnessVersion

\* The hex text of a script is its name; any other text is not hex.
NotHex == "not-hex"
ScriptBuf_from_hex(hex) ==
    IF hex \in Scripts THEN [ok |-> TRUE, script |-> hex]
    ELSE [ok |-> FALSE, script |-> hex]

\* What an input's unlocking data yields under get_pubkey_from_input:
\* a key 1..KeyOrder-1 (Ok(Some)), NoKey (Ok(None)) or Malformed (Err).
NoKey == 0
Malformed == 0 - 1
Keys == 1..(KeyOrder - 1)
get_pubkey_from_input(input, previous_script) ==
    IF input.unlock = Malformed THEN [ok |-> FALSE, key |-> <<>>]
    ELSE IF input.unlock = NoKey THEN [ok |-> TRUE, key |-> <<>>]
    ELSE [ok |-> TRUE, key |-> <<input.unlock>>]

\* Transaction outputs, named by their kind.
OutputKinds == {"p2tr", "p2tr_badkey", "other"}
is_p2tr(output) == output \in {"p2tr", "p2tr_badkey"}
XOnlyPublicKey_from_slice_ok(output) == output = "p2tr"

(***************************************************************************)
(* Chain (chain.rs:126-144): the optional previous-output cache.           *)
(***************************************************************************)
Chain_new == [previous_scripts |-> <<>>]

\* a set that adds the batch to the entries already cached
set_previous_scripts_extend(chain, previous_scripts) ==
    [chain EXCEPT !.previous_scripts =
        IF @ = <<>> THEN <<previous_scripts>> ELSE <<@[1] \o previous_scripts>>]

set_previous_scripts(chain, previous_scripts) ==
    [chain EXCEPT !.previous_scripts = <<previous_scripts>>]

RECURSIVE iter_find(_, _, _, _)
iter_find(v, tx_id, vout, k) ==
    IF k > Len(v) THEN <<>>
    ELSE IF v[k].txid = tx_id /\ v[k].vout = vout THEN <<v[k]>>
    ELSE iter_find(v, tx_id, vout, k + 1)

find_previous_script(chain, tx_id, vout) ==
    IF chain.previous_scripts = <<>> THEN <<>>
    ELSE iter_find(chain.previous_scripts[1], tx_id, vout, 1)

\* a filter that lets witness version 2 through
is_segwit_gt_v2(script_pubkey) ==
    LET version == witness_version(script_pubkey)
    IN  IF version # NoWitnessVersion
        THEN (IF version \in {0, 1, 2} THEN FALSE ELSE TRUE)
        ELSE FALSE

is_segwit_gt_v1(script_pubkey) ==
    LET version == witness_version(script_pubkey)
    IN  IF version # NoWitnessVersion
        THEN (IF version \in {0, 1} THEN FALSE ELSE TRUE)
        ELSE FALSE

(***************************************************************************)
(* The remote transaction lookup get_transaction + deserialize_hex: the    *)
(* node answers with an error, with text that does not decode, or with a   *)
(* transaction (its computed id and its outputs' scripts).                 *)
(***************************************************************************)
NoResponse == [kind |-> "none", txid |-> NullTxid, output |-> <<>>]
RemoteScripts == {"p2pkh", "p2wpkh", "wv2"}
\* the answers to a lookup of txid t: a transaction of another id is kept
\* with one script only, since the caller stops at the id
RemoteResponses(t) ==
    {[kind |-> "rpc_err", txid |-> NullTxid, output |-> <<>>],
     [kind |-> "undecodable", txid |-> NullTxid, output |-> <<>>]}
    \cup {[kind |-> "tx", txid |-> t, output |-> <<s>>] : s \in RemoteScripts}
    \cup {[kind |-> "tx", txid |-> u, output |-> <<"p2pkh">>] : u \in PrevTxids \ {t}}

\* Lines 170-182: the previous script of one input, from the cache or from
\* the remote lookup whose answer is r.
resolve_previous_script(chain, input, r) ==
    LET tx_id == txid_to_string(input.previous_output.txid)
        hit == find_previous_script(chain, tx_id, input.previous_output.vout)
    IN  IF hit # <<>>
        THEN LET s == ScriptBuf_from_hex(hit[1].script)
             IN  IF s.ok
                 THEN [kind |-> "script", script |-> s.script, remote |-> FALSE]
                 ELSE [kind |-> "err", script |-> "FromHex", remote |-> FALSE]
        ELSE IF r.kind = "rpc_err"
             THEN [kind |-> "err", script |-> "get_transaction", remote |-> TRUE]
        ELSE IF r.kind # "tx"
             THEN [kind |-> "err", script |-> "deserialize_hex", remote |-> TRUE]
        ELSE IF r.txid # input.previous_output.txid
             THEN [kind |-> "panic", script |-> "assert_txid", remote |-> TRUE]
        ELSE IF input.previous_output.vout + 1 <= Len(r.output)
             THEN [kind |-> "script",
                   script |-> r.output[input.previous_output.vout + 1],
                   remote |-> TRUE]
        ELSE [kind |-> "err", script |-> "TxOutputNotFound", remote |-> TRUE]

(***************************************************************************)
(* receiving::calculate_tweak_data: the keys are summed; an empty list or  *)
(* a sum that is the identity is InvalidPublicKeySum; any other failure of *)
(* the library is ecfail; the tweak is a function of the sum and of the    *)
(* outpoints.                                                              *)
(***************************************************************************)
RECURSIVE SumSeq(_)
SumSeq(s) == IF s = <<>> THEN 0 ELSE Head(s) + SumSeq(Tail(s))

calculate_tweak_data(pubkeys, outpoints, ecfail) ==
    IF pubkeys = <<>> \/ SumSeq(pubkeys) % KeyOrder = 0
    THEN [err |-> "InvalidPublicKeySum", val |-> <<>>]
    ELSE IF ecfail THEN [err |-> "Secp256k1Error", val |-> <<>>]
    ELSE [err |-> "", val |-> <<SumSeq(pubkeys) % KeyOrder, outpoints>>]

(***************************************************************************)
(* Chain::process_transaction (chain.rs:159-242).  The outcome records the *)
(* result (status ok | err | panic, the tweaks) and what the run did: the  *)
(* cache lookups, the remote lookups, the scripts resolved, the keys       *)
(* collected and the arguments handed to the aggregation.                  *)
(***************************************************************************)
EmptyRun ==
    [cache_lookups |-> <<>>, lookups |-> <<>>, scripts |-> <<>>, keys |-> <<>>]

Outcome(status, reason, tweaks, run, agg) ==
    [status |-> status, reason |-> reason, tweaks |-> tweaks,
     cache_lookups |-> run.cache_lookups, lookups |-> run.lookups,
     scripts |-> run.scripts, keys |-> run.keys, agg |-> agg]

\* the for loop over transaction.input, lines 164-207
RECURSIVE input_loop(_, _, _, _, _)
input_loop(chain, transaction, resp, j, run) ==
    IF j > Len(transaction.input) THEN Outcome("loop_done", "", <<>>, run, <<>>)
    ELSE
    LET input == transaction.input[j]
    IN  IF is_null(input.previous_output) THEN Outcome("ok", "null", <<>>, run, <<>>)
        ELSE
        LET po == <<txid_to_string(input.previous_output.txid), input.previous_output.vout>>
            rs == resolve_previous_script(chain, input, resp[j])
            run1 == [run EXCEPT !.cache_lookups = Append(@, po),
                                !.lookups = IF rs.remote THEN Append(@, po[1]) ELSE @]
        IN  IF rs.kind = "panic" THEN Outcome("panic", rs.script, <<>>, run1, <<>>)
            ELSE IF rs.kind = "err" THEN Outcome("err", rs.script, <<>>, run1, <<>>)
            ELSE
            LET run2 == [run1 EXCEPT !.scripts = Append(@, rs.script)]
            IN  IF is_segwit_gt_v1(rs.script)
                THEN Outcome("err", "SegWitVersionGE2", <<>>, run2, <<>>)
                ELSE
                LET pk == get_pubkey_from_input(input, rs.script)
                IN  IF ~pk.ok THEN Outcome("err", "PubKeyFromInput", <<>>, run2, <<>>)
                    ELSE input_loop(chain, transaction, resp, j + 1,
                                    [run2 EXCEPT !.keys = @ \o pk.key])

\* an error match in which every failure of the aggregation is hard
match_tweak_error_hard(err) == "err"

\* an error match in which every failure of the aggregation is an empty
\* success
match_tweak_error_soft(err) == "ok"

\* lines 225-233: the match on the error of calculate_tweak_data
match_tweak_error(err) == IF err = "InvalidPublicKeySum" THEN "ok" ELSE "err"

\* a push that happens once for every input
push_tweak_per_input(transaction, tweak_data) ==
    [j \in 1..Len(transaction.input) |->
        [tx_id |-> txid_to_string(transaction.txid), tweak |-> tweak_data]]

\* lines 236-239: tweaks.push(Tweak { tx_id, tweak })
push_tweak(transaction, tweak_data) ==
    <<[tx_id |-> txid_to_string(transaction.txid), tweak |-> tweak_data]>>

\* an outpoint list of the inputs that gave a key only
outpoints_keyed(transaction) ==
    LET keyed == SelectSeq(transaction.input, LAMBDA i : i.unlock \in Keys)
    IN  [j \in 1..Len(keyed) |->
            <<txid_to_string(keyed[j].previous_output.txid), keyed[j].previous_output.vout>>]

\* lines 212-220: the outpoints of transaction.input, mapped in order
outpoints(transaction) ==
    [i \in 1..Len(transaction.input) |->
        <<txid_to_string(transaction.input[i].previous_output.txid),
          transaction.input[i].previous_output.vout>>]

process_transaction(chain, transaction, resp, ecfail) ==
    LET l == input_loop(chain, transaction, resp, 1, EmptyRun)
    IN  IF l.status # "loop_done" THEN l
        ELSE
        LET run == [cache_lookups |-> l.cache_lookups, lookups |-> l.lookups,
                    scripts |-> l.scripts, keys |-> l.keys]
            agg == <<[pubkeys |-> l.keys, outpoints |-> outpoints(transaction)]>>
            tweak_data == calculate_tweak_data(l.keys, outpoints(transaction), ecfail)
        IN  IF tweak_data.err # ""
            THEN Outcome(match_tweak_error(tweak_data.err), tweak_data.err, <<>>, run, agg)
            ELSE Outcome("ok", "tweak", push_tweak(transaction, tweak_data.val), run, agg)

(***************************************************************************)
(* State.                                                                  *)
(***************************************************************************)
VARIABLES
    chain,          \* the Chain context: [previous_scripts: Option<Vec<PreviousScript>>]
    dpc,            \* process_transactions: "idle" | "spawning" | "joining"
    block,          \* block.txdata of the block being dispatched
    tasks,          \* the spawned tasks, in submission order
    joined,         \* how many tasks the join loop has awaited
    block_tweaks,   \* the accumulated result
    ret,            \* what the last process_transactions returned
    completion,     \* history: task indexes in the order the tasks completed
    last_set,       \* history: the argument of the last set_previous_scripts
    calls,          \* history: calls of process_transactions so far
    tip,            \* the node: its block count
    reorged,        \* the node: the heights whose block was replaced
    blocks,         \* the store: table blocks, rows [height, hash, has_tweaks]
    tweaks,         \* the store: table tweaks, rows [block_hash, tx_id, tweak] by id
    pc,             \* index_blocks: "off" | "loop" | "height" | "dispatch" | "sleep"
    startup,        \* StartupParams of the running process
    current_block,
    last_block,
    block_hash,     \* the hash of the block being dispatched
    exit_status,    \* how the last process ended: "none" | "ok" | "fatal"
    argv,           \* history: the command line (Cli) of the running process
    visited,        \* history: the heights the while loop has gone through in this pass
    node_reply,     \* history: how the node answered the orchestrator's last call
    fetched,        \* history: the batch of the last get_prevouts of this process
    one_shot_ran    \* history: some process so far was run in one-shot mode

dvars == <<chain, dpc, block, tasks, joined, block_tweaks, ret, completion, last_set, calls>>
nvars == <<tip, reorged>>
svars == <<blocks, tweaks>>
ovars == <<pc, startup, current_block, last_block, block_hash, exit_status>>
hvars == <<argv, visited, node_reply, fetched, one_shot_ran>>
vars == <<dvars, nvars, svars, ovars, hvars>>

(***************************************************************************)
(* Inputs of the dispatcher.                                               *)
(***************************************************************************)
SeqsUpTo(S, n) == UNION {[1..k -> S] : k \in 0..n}

PrevOuts == [txid : PrevTxids, vout : 0..MaxVout]
Unlocks == {Malformed, NoKey} \cup Keys
Inputs ==
    {[previous_output |-> OutPointNull, unlock |-> NoKey]}
    \cup [previous_output : PrevOuts, unlock : Unlocks]
OutputLists == {<<"other">>, <<"p2tr">>, <<"p2tr_badkey">>, <<"other", "p2tr">>}

\* the transactions of a block, before their ids are assigned
TxShapes == [output : OutputLists, input : SeqsUpTo(Inputs, MaxInputs) \ {<<>>}]

\* a batch of previous scripts, as get_block_input_transactions yields it
PreviousScripts ==
    [txid : {txid_to_string(t) : t \in PrevTxids}, vout : 0..MaxVout,
     script : {"p2tr", "wv16", NotHex}]
Batches == SeqsUpTo(PreviousScripts, MaxCache)

(***************************************************************************)
(* Chain::process_transactions (chain.rs:245-299).                         *)
(***************************************************************************)
NoRet == [kind |-> "none", tweaks |-> <<>>]

\* a pre-filter that does not validate the x-only key
has_taproot_unvalidated(tx) == \E k \in 1..Len(tx.output) : is_p2tr(tx.output[k])

\* lines 259-265
has_taproot(tx) ==
    \E k \in 1..Len(tx.output) :
        is_p2tr(tx.output[k]) /\ XOnlyPublicKey_from_slice_ok(tx.output[k])

\* lines 246-247: deserialize_hex::<Block>
deserialize_block(block_hex) ==
    [ok |-> block_hex.decodable, txdata |-> block_hex.txdata]

\* lines 249-250: the decoded block, no task yet
DispatchBegin(block_hex) ==
    /\ dpc = "idle"
    /\ deserialize_block(block_hex).ok
    /\ block' = deserialize_block(block_hex).txdata
    /\ tasks' = <<>>
    /\ joined' = 0
    /\ block_tweaks' = <<>>
    /\ completion' = <<>>
    /\ dpc' = IF Len(block') = 0 THEN "joining" ELSE "spawning"
    /\ ret' = NoRet

\* line 247: the decoding failed, Err is returned at once
DispatchDecodeErr == [kind |-> "err", tweaks |-> <<>>]

\* lines 252-284: spawn the task of the next transaction, with a clone of
\* the Chain context
NewTask(c) ==
    [st |-> "spawned", chain |-> c, invoked |-> FALSE,
     out |-> Outcome("none", "", <<>>, EmptyRun, <<>>),
     resp |-> <<>>, ecfail |-> FALSE]

Spawn ==
    /\ dpc = "spawning"
    /\ tasks' = Append(tasks, NewTask(chain))
    /\ dpc' = IF Len(tasks') = Len(block) THEN "joining" ELSE "spawning"
    /\ UNCHANGED <<chain, block, joined, block_tweaks, ret, completion, last_set, calls>>

\* the answers of the node to the remote lookups a run makes: one for each
\* input that is examined and misses the cache, none for the others
MayAnswer(c, input) ==
    IF is_null(input.previous_output) THEN {NoResponse}
    ELSE IF find_previous_script(c, txid_to_string(input.previous_output.txid),
                                 input.previous_output.vout) # <<>>
    THEN {NoResponse}
    ELSE {NoResponse} \cup RemoteResponses(input.previous_output.txid)

AnswersFit(c, tx, resp, out) ==
    \A j \in 1..Len(tx.input) :
        (resp[j] # NoResponse) <=>
            (j <= Len(out.cache_lookups) /\ MayAnswer(c, tx.input[j]) # {NoResponse})

\* lines 255-282: the body of a task, run to completion; a panic in it ends
\* the task alone and reaches the join loop as a JoinError (line 294)
TaskBody(t, tx, resp, ecfail) ==
    IF has_taproot(tx)
    THEN [t EXCEPT !.st = "done", !.invoked = TRUE, !.resp = resp, !.ecfail = ecfail,
                   !.out = process_transaction(t.chain, tx, resp, ecfail)]
    ELSE [t EXCEPT !.st = "done", !.resp = resp,
                   !.out = Outcome("ok", "no_taproot", <<>>, EmptyRun, <<>>)]

TaskRun(i) ==
    /\ i \in 1..Len(tasks)
    /\ tasks[i].st = "spawned"
    /\ \E resp \in [1..Len(block[i].input) -> UNION {MayAnswer(tasks[i].chain, block[i].input[j]) :
                                                        j \in 1..Len(block[i].input)}] :
          /\ \A j \in 1..Len(block[i].input) :
                resp[j] \in MayAnswer(tasks[i].chain, block[i].input[j])
          /\ LET t0 == TaskBody(tasks[i], block[i], resp, FALSE)
             IN  /\ AnswersFit(tasks[i].chain, block[i], resp, t0.out)
                 /\ \E ecfail \in (IF t0.out.reason = "tweak" THEN BOOLEAN ELSE {FALSE}) :
                       tasks' = [tasks EXCEPT ![i] = TaskBody(tasks[i], block[i], resp, ecfail)]
    /\ completion' = Append(completion, i)
    /\ UNCHANGED <<chain, dpc, block, joined, block_tweaks, ret, last_set, calls>>

\* a join loop that awaits whichever task completed next
JoinIndexByCompletion == IF joined < Len(completion) THEN completion[joined + 1] ELSE 0

\* a join loop in which a failed task discards the block's result
JoinResultAbort(acc, t) ==
    IF t.out.status = "ok" THEN acc \o t.out.tweaks ELSE <<>>

\* lines 286-296: the task awaited next, and what its result adds
JoinIndex == joined + 1

JoinResult(acc, t) ==
    IF t.out.status = "ok"
    THEN (IF t.out.tweaks # <<>> THEN acc \o t.out.tweaks ELSE acc)
    ELSE acc

Join ==
    /\ dpc = "joining"
    /\ joined < Len(tasks)
    /\ JoinIndex \in 1..Len(tasks)
    /\ tasks[JoinIndex].st = "done"
    /\ block_tweaks' = JoinResult(block_tweaks, tasks[JoinIndex])
    /\ joined' = joined + 1
    /\ UNCHANGED <<chain, dpc, block, tasks, ret, completion, last_set, calls>>

\* a dispatcher that returns once the tasks are spawned, without awaiting
DispatchDoneUnjoined == dpc = "joining"

\* line 298
DispatchDone == dpc = "joining" /\ joined = Len(tasks)
DispatchResult == [kind |-> "ok", tweaks |-> block_tweaks]

(***************************************************************************)
(* The Chain object under a client that sets the cache and calls the       *)
(* dispatcher: SpecPipeline (one transaction, every shape of it) and       *)
(* SpecDispatch (several transactions of one input each).                  *)
(***************************************************************************)
AssignTxids(shapes, perm) ==
    [i \in 1..Len(shapes) |->
        [txid |-> BlockTxid(perm[i]), output |-> shapes[i].output, input |-> shapes[i].input]]

Undecodable == [decodable |-> FALSE, txdata |-> <<>>]

PipelineBlockHexes ==
    {Undecodable}
    \cup {[decodable |-> TRUE, txdata |-> AssignTxids(<<s>>, <<1>>)] : s \in TxShapes}

FirstPrevOut == [txid |-> 1, vout |-> 0]
DispatchTxShapes ==
    {s \in TxShapes : /\ Len(s.input) = 1
                      /\ Len(s.output) = 1
                      /\ s.input[1].previous_output = FirstPrevOut}
DispatchBlockHexes ==
    {Undecodable}
    \cup {[decodable |-> TRUE, txdata |-> AssignTxids(shapes, perm)] :
             shapes \in SeqsUpTo(DispatchTxShapes, MaxTxs),
             perm \in Permutations(1..MaxTxs)}

RECURSIVE TotalInputs(_)
TotalInputs(txdata) ==
    IF txdata = <<>> THEN 0 ELSE Len(Head(txdata).input) + TotalInputs(Tail(txdata))

CacheLen(c) == IF c.previous_scripts = <<>> THEN 0 ELSE Len(c.previous_scripts[1])

InitDispatch ==
    /\ chain = Chain_new
    /\ dpc = "idle"
    /\ block = <<>>
    /\ tasks = <<>>
    /\ joined = 0
    /\ block_tweaks = <<>>
    /\ ret = NoRet
    /\ completion = <<>>
    /\ last_set = <<>>
    /\ calls = 0

\* no command line: the indexer process is not running
NoCli == [start_height |-> <<>>, end_height |-> <<>>, blocks |-> <<>>, seek_prev_outs |-> FALSE]

\* the indexer process is not running
NoStartup ==
    [start_height |-> 0, end_height |-> 0, continuous_index |-> FALSE,
     seek_prev_outs |-> FALSE]

InitOff ==
    /\ pc = "off"
    /\ startup = NoStartup
    /\ current_block = 0
    /\ last_block = 0
    /\ block_hash = <<>>
    /\ exit_status = "none"
    /\ argv = NoCli
    /\ visited = <<>>
    /\ fetched = <<>>
    /\ one_shot_ran = FALSE
    /\ node_reply = "none"
    /\ blocks = {}
    /\ tweaks = <<>>
    /\ reorged = {}

SetPreviousScripts(previous_scripts) ==
    /\ dpc = "idle"
    /\ calls = 0
    /\ chain' = set_previous_scripts(chain, previous_scripts)
    /\ last_set' = <<previous_scripts>>
    /\ UNCHANGED <<dpc, block, tasks, joined, block_tweaks, ret, completion, calls>>

Call(block_hex) ==
    /\ calls < MaxCalls
    /\ calls' = calls + 1
    /\ IF deserialize_block(block_hex).ok
       THEN DispatchBegin(block_hex)
       ELSE /\ dpc = "idle"
            /\ ret' = DispatchDecodeErr
            /\ block' = <<>>
            /\ tasks' = <<>>
            /\ joined' = 0
            /\ block_tweaks' = <<>>
            /\ completion' = <<>>
            /\ UNCHANGED dpc
    /\ UNCHANGED <<chain, last_set>>

Return ==
    /\ DispatchDone
    /\ ret' = DispatchResult
    /\ dpc' = "idle"
    /\ UNCHANGED <<chain, block, tasks, joined, block_tweaks, completion, last_set, calls>>

CanCall == dpc = "idle" /\ calls < MaxCalls
CanSet == dpc = "idle" /\ calls = 0
Quiet == UNCHANGED <<nvars, svars, ovars, hvars>>

NextPipeline ==
    \/ CanSet /\ Quiet /\ \E b \in Batches : SetPreviousScripts(b)
    \/ CanCall /\ Quiet /\ \E h \in PipelineBlockHexes :
          /\ CacheLen(chain) + TotalInputs(h.txdata) <= MaxSize
          /\ Call(h)
    \/ Spawn /\ Quiet
    \/ Quiet /\ \E i \in 1..Len(tasks) : TaskRun(i)
    \/ Join /\ Quiet
    \/ Return /\ Quiet

InitClient == InitDispatch /\ InitOff /\ tip = FirstTaprootBlock

SpecPipeline == InitClient /\ [][NextPipeline]_vars

NextDispatch ==
    \/ CanSet /\ Quiet /\ \E b \in SeqsUpTo(PreviousScripts, 1) : SetPreviousScripts(b)
    \/ CanCall /\ Quiet /\ \E h \in DispatchBlockHexes : Call(h)
    \/ Spawn /\ Quiet
    \/ Quiet /\ \E i \in 1..Len(tasks) : TaskRun(i)
    \/ Join /\ Quiet
    \/ Return /\ Quiet

SpecDispatch == InitClient /\ [][NextDispatch]_vars

(***************************************************************************)
(* The store (database.rs).  The blocks table has height as primary key;   *)
(* SQLite does not enforce the foreign key of tweaks unless it is switched *)
(* on, which database.rs does not do.                                      *)
(***************************************************************************)
insert_block(rows, b) ==
    IF \E r \in rows : r.height = b.height
    THEN [ok |-> FALSE, rows |-> rows]
    ELSE [ok |-> TRUE, rows |-> rows \cup {b}]

insert_tweak(rows, t) == [ok |-> TRUE, rows |-> Append(rows, t)]

get_block(rows, hash) == {r \in rows : r.hash = hash}

get_highest_block(rows) ==
    IF rows = {} THEN 0
    ELSE CHOOSE h \in {r.height : r \in rows} : \A r \in rows : r.height <= h

(***************************************************************************)
(* The node (chain.rs:69-79), as bitcoin-cli answers.                      *)
(***************************************************************************)
node_block_hash(height) == <<height, IF height \in reorged THEN 1 ELSE 0>>

\* the bodies the node serves
Coinbase == [output |-> <<"other">>, input |-> <<[previous_output |-> OutPointNull, unlock |-> NoKey]>>]
Payment == [output |-> <<"p2tr">>, input |-> <<[previous_output |-> FirstPrevOut, unlock |-> 1]>>]
Identity(n) == [i \in 1..n |-> i]
NodeBlockHexes ==
    {Undecodable}
    \cup {[decodable |-> TRUE, txdata |-> AssignTxids(shapes, Identity(Len(shapes)))] :
             shapes \in {<<Coinbase>>, <<Coinbase, Payment>>}}
NodeBatches == {<<>>, <<[txid |-> txid_to_string(1), vout |-> 0, script |-> "p2tr"]>>}

(***************************************************************************)
(* main.rs: handle_inputs, auto_index and index_blocks.                    *)
(***************************************************************************)
CliArgs ==
    {c \in [start_height : {<<>>, <<0>>, <<LowHeight>>, <<FirstTaprootBlock>>},
            end_height : {<<>>, <<LowHeight>>},
            blocks : {<<>>, <<1>>},
            seek_prev_outs : BOOLEAN] :
        /\ c.start_height = <<>> => (c.end_height = <<>> /\ c.blocks = <<>>)
        /\ c.end_height # <<>> =>
               (c.blocks = <<>> /\ c.start_height \in {<<0>>, c.end_height})
        /\ c.start_height \in {<<0>>, <<LowHeight>>} => c.end_height # <<>>}

\* lines 84-112
handle_inputs(cli) ==
    LET start_height == IF cli.start_height # <<>> THEN cli.start_height[1] ELSE 0
        end_height ==
            IF cli.end_height # <<>> THEN cli.end_height[1]
            ELSE LET block_count == IF cli.blocks # <<>> THEN cli.blocks[1] ELSE DefaultBlocks
                 IN  start_height + block_count
    IN  [start_height |-> start_height,
         end_height |-> end_height,
         continuous_index |-> (start_height = 0),
         seek_prev_outs |-> cli.seek_prev_outs]

\* a resume that starts at the height after the highest one stored
auto_index_after(rows, block_count) ==
    LET highest_block == get_highest_block(rows)
        starting_block == IF highest_block > 0 THEN highest_block + 1 ELSE FirstTaprootBlock
    IN  <<starting_block, IF block_count < starting_block THEN starting_block ELSE block_count>>

\* a resume that never starts below the first taproot height
auto_index_max(rows, block_count) ==
    LET highest_block == get_highest_block(rows)
        starting_block ==
            IF highest_block > FirstTaprootBlock THEN highest_block ELSE FirstTaprootBlock
    IN  <<starting_block, IF block_count < starting_block THEN starting_block ELSE block_count>>

\* lines 59-82, get_block_count having answered block_count
auto_index(rows, block_count) ==
    LET highest_block == get_highest_block(rows)
        starting_block == IF highest_block > 0 THEN highest_block ELSE FirstTaprootBlock
        last_block0 == block_count
    IN  <<starting_block, IF last_block0 < starting_block THEN starting_block ELSE last_block0>>

DispatcherIdle == UNCHANGED <<dpc, block, tasks, joined, block_tweaks, ret, completion>>
History == UNCHANGED <<last_set, calls>>

\* the process ends (exit(1), or the return of index_blocks): its memory is gone
ProcessEnds(status) ==
    /\ pc' = "off"
    /\ exit_status' = status
    /\ startup' = NoStartup
    /\ current_block' = 0
    /\ last_block' = 0
    /\ block_hash' = <<>>
    /\ chain' = Chain_new
    /\ argv' = NoCli
    /\ visited' = <<>>
    /\ fetched' = <<>>
    /\ UNCHANGED one_shot_ran
    /\ ret' = NoRet
    /\ UNCHANGED <<dpc, block, tasks, joined, block_tweaks, completion>>
    /\ History
    /\ UNCHANGED <<nvars, svars>>

\* a failure that only ends the pass: the loop is left and the process sleeps
Exit1Break ==
    /\ pc' = "sleep"
    /\ UNCHANGED <<startup, current_block, last_block, block_hash, exit_status, chain>>
    /\ UNCHANGED <<one_shot_ran, argv, visited, fetched>>
    /\ DispatcherIdle /\ History
    /\ UNCHANGED <<nvars, svars>>

\* exit(1)
Exit1 == ProcessEnds("fatal")

\* lines 116-125
Launch(cli, db_ok) ==
    /\ pc = "off"
    /\ node_reply' = "none"
    /\ IF db_ok
       THEN /\ startup' = handle_inputs(cli)
            /\ argv' = cli
            /\ visited' = <<>>
            /\ fetched' = <<>>
            /\ one_shot_ran' = (one_shot_ran \/ ~startup'.continuous_index)
            /\ current_block' = startup'.start_height
            /\ last_block' = startup'.end_height
            /\ pc' = "loop"
            /\ exit_status' = "none"
            /\ UNCHANGED <<block_hash, chain>>
            /\ DispatcherIdle /\ History
            /\ UNCHANGED <<nvars, svars>>
       ELSE Exit1

\* lines 127-133: the head of the loop
PassBegin ==
    /\ pc = "loop"
    /\ IF startup.continuous_index
       THEN /\ current_block' = auto_index(blocks, tip)[1]
            /\ last_block' = auto_index(blocks, tip)[2]
       ELSE UNCHANGED <<current_block, last_block>>
    /\ node_reply' = (IF startup.continuous_index THEN "ok" ELSE node_reply)
    /\ visited' = <<>>
    /\ UNCHANGED <<one_shot_ran, argv, fetched>>
    /\ chain' = Chain_new
    /\ pc' = "height"
    /\ UNCHANGED <<startup, block_hash, exit_status>>
    /\ DispatcherIdle /\ History
    /\ UNCHANGED <<nvars, svars>>

\* lines 69-75: get_block_count fails
BlockCountFails ==
    /\ pc = "loop"
    /\ startup.continuous_index
    /\ node_reply' = "blockcount_err"
    /\ Exit1

\* lines 197-203: after the while loop
EndPass ==
    IF startup.continuous_index
    THEN /\ pc' = "sleep"
         /\ UNCHANGED <<startup, current_block, last_block, block_hash, exit_status, chain>>
         /\ UNCHANGED <<one_shot_ran, argv, visited, fetched>>
         /\ DispatcherIdle /\ History
         /\ UNCHANGED <<nvars, svars>>
    ELSE ProcessEnds("ok")

\* line 134: the range is exhausted
RangeDone ==
    /\ pc = "height"
    /\ ~(current_block <= last_block)
    /\ UNCHANGED node_reply
    /\ EndPass

InRange == pc = "height" /\ current_block <= last_block

\* a loop that treats "height out of range" as any other failure
HashOutOfRangeFatal ==
    /\ InRange
    /\ current_block > tip
    /\ node_reply' = "out_of_range"
    /\ Exit1

\* lines 135-141: get_block_hash answers "height out of range"
HashOutOfRange ==
    /\ InRange
    /\ current_block > tip
    /\ node_reply' = "out_of_range"
    /\ EndPass

\* lines 141-144: get_block_hash fails otherwise
HashFails ==
    /\ InRange
    /\ node_reply' = "hash_err"
    /\ Exit1

HashKnown == InRange /\ current_block <= tip

\* lines 149-153
AlreadyProcessed ==
    /\ HashKnown
    /\ Cardinality(get_block(blocks, node_block_hash(current_block))) > 0
    /\ current_block' = current_block + 1
    /\ visited' = Append(visited, current_block)
    /\ node_reply' = "ok"
    /\ UNCHANGED <<one_shot_ran, argv, fetched>>
    /\ UNCHANGED <<pc, startup, last_block, block_hash, exit_status, chain>>
    /\ DispatcherIdle /\ History
    /\ UNCHANGED <<nvars, svars>>

Unprocessed ==
    /\ HashKnown
    /\ ~(Cardinality(get_block(blocks, node_block_hash(current_block))) > 0)

\* lines 155-161: get_block fails
BodyFails ==
    /\ Unprocessed
    /\ node_reply' = "block_err"
    /\ Exit1

\* lines 163-170: get_block_input_transactions fails
BatchFails ==
    /\ Unprocessed
    /\ startup.seek_prev_outs
    /\ node_reply' = "prevouts_err"
    /\ Exit1

\* lines 163-171: get_prevouts is called, and answers batch, only under
\* --seek-prev-outs
Fetched(batch) == IF startup.seek_prev_outs THEN <<batch>> ELSE fetched

\* a cache that is filled for the first block of a pass only
FetchBatchOnce(batch) ==
    IF startup.seek_prev_outs /\ chain.previous_scripts = <<>>
    THEN set_previous_scripts(chain, batch) ELSE chain

\* lines 163-171: the cache of the block
FetchBatch(batch) ==
    IF startup.seek_prev_outs THEN set_previous_scripts(chain, batch) ELSE chain

\* lines 155-175: the body and the batch are fetched, the dispatcher is
\* called and decodes the block
Dispatch(block_hex, batch) ==
    /\ Unprocessed
    /\ chain' = FetchBatch(batch)
    /\ DispatchBegin(block_hex)
    /\ block_hash' = node_block_hash(current_block)
    /\ pc' = "dispatch"
    /\ node_reply' = "ok"
    /\ fetched' = Fetched(batch)
    /\ UNCHANGED <<one_shot_ran, argv, visited>>
    /\ UNCHANGED <<startup, current_block, last_block, exit_status>>
    /\ History
    /\ UNCHANGED <<nvars, svars>>

\* a skip that still records the block, as one without tweaks
DispatchFailsRecorded(block_hex, batch) ==
    /\ Unprocessed
    /\ ~deserialize_block(block_hex).ok
    /\ chain' = FetchBatch(batch)
    /\ ret' = DispatchDecodeErr
    /\ current_block' = current_block + 1
    /\ visited' = Append(visited, current_block)
    /\ node_reply' = "ok"
    /\ blocks' = insert_block(blocks, [height |-> current_block,
                                       hash |-> node_block_hash(current_block),
                                       has_tweaks |-> FALSE]).rows
    /\ fetched' = Fetched(batch)
    /\ UNCHANGED <<one_shot_ran, argv, tweaks, nvars>>
    /\ UNCHANGED <<pc, startup, last_block, block_hash, exit_status>>
    /\ UNCHANGED <<dpc, block, tasks, joined, block_tweaks, completion>>
    /\ History

\* lines 155-175, 192-194: the dispatcher fails to decode the block
DispatchFails(block_hex, batch) ==
    /\ Unprocessed
    /\ ~deserialize_block(block_hex).ok
    /\ chain' = FetchBatch(batch)
    /\ ret' = DispatchDecodeErr
    /\ current_block' = current_block + 1
    /\ visited' = Append(visited, current_block)
    /\ node_reply' = "ok"
    /\ fetched' = Fetched(batch)
    /\ UNCHANGED <<one_shot_ran, argv>>
    /\ UNCHANGED <<pc, startup, last_block, block_hash, exit_status>>
    /\ UNCHANGED <<dpc, block, tasks, joined, block_tweaks, completion>>
    /\ History
    /\ UNCHANGED <<nvars, svars>>

\* lines 179-185
RECURSIVE insert_tweaks(_, _, _)
insert_tweaks(rows, hash, tws) ==
    IF tws = <<>> THEN rows
    ELSE insert_tweaks(insert_tweak(rows, [block_hash |-> hash,
                                            tx_id |-> Head(tws).tx_id,
                                            tweak |-> Head(tws).tweak]).rows,
                       hash, Tail(tws))

\* a flag that is raised for every block
HasTweaksAlways(tws) == TRUE

\* line 177
HasTweaks(tws) == ~(tws = <<>>)

\* lines 176-194: process_transactions has returned Ok
Persist ==
    /\ pc = "dispatch"
    /\ DispatchDone
    /\ Len(tweaks) + Len(block_tweaks) <= MaxRows
    /\ LET result == DispatchResult
       IN  /\ tweaks' = insert_tweaks(tweaks, block_hash, result.tweaks)
           /\ blocks' = insert_block(blocks, [height |-> current_block,
                                              hash |-> block_hash,
                                              has_tweaks |-> HasTweaks(result.tweaks)]).rows
    /\ current_block' = current_block + 1
    /\ pc' = "height"
    /\ block_hash' = <<>>
    /\ dpc' = "idle"
    /\ block' = <<>>
    /\ tasks' = <<>>
    /\ joined' = 0
    /\ block_tweaks' = <<>>
    /\ completion' = <<>>
    /\ ret' = NoRet
    /\ visited' = Append(visited, current_block)
    /\ UNCHANGED <<one_shot_ran, argv, node_reply, fetched>>
    /\ UNCHANGED <<startup, last_block, exit_status, chain>>
    /\ History
    /\ UNCHANGED nvars

\* line 199: the sleep ends
Wake ==
    /\ pc = "sleep"
    /\ pc' = "loop"
    /\ UNCHANGED <<startup, current_block, last_block, block_hash, exit_status, chain>>
    /\ UNCHANGED hvars
    /\ DispatcherIdle /\ History
    /\ UNCHANGED <<nvars, svars>>

(***************************************************************************)
(* The node between two steps of the orchestrator.                         *)
(***************************************************************************)
NodeQuiet == pc # "dispatch"

NodeAdvance ==
    /\ NodeQuiet
    /\ tip < FirstTaprootBlock + MaxNewBlocks
    /\ tip' = tip + 1
    /\ UNCHANGED <<reorged, dvars, svars, ovars, hvars>>

\* the node replaces its tip block, which the store has recorded
Reorg ==
    /\ NodeQuiet
    /\ Cardinality(reorged) < MaxReorgs
    /\ tip \notin reorged
    /\ get_block(blocks, node_block_hash(tip)) # {}
    /\ reorged' = reorged \cup {tip}
    /\ UNCHANGED <<tip, dvars, svars, ovars, hvars>>

Init ==
    /\ InitDispatch
    /\ InitOff
    /\ tip \in {FirstTaprootBlock - 1, FirstTaprootBlock}

Next ==
    \/ pc = "off" /\ \E cli \in CliArgs, db_ok \in BOOLEAN : Launch(cli, db_ok)
    \/ PassBegin
    \/ BlockCountFails
    \/ RangeDone
    \/ HashOutOfRange
    \/ HashFails
    \/ AlreadyProcessed
    \/ BodyFails
    \/ BatchFails
    \/ Unprocessed /\ \E block_hex \in NodeBlockHexes, batch \in NodeBatches :
          Dispatch(block_hex, batch)
    \/ Unprocessed /\ \E block_hex \in NodeBlockHexes, batch \in NodeBatches :
          DispatchFails(block_hex, batch)
    \/ Spawn /\ Quiet
    \/ Quiet /\ \E i \in 1..Len(tasks) : TaskRun(i)
    \/ Join /\ Quiet
    \/ Persist
    \/ Wake
    \/ NodeAdvance
    \/ Reorg

Spec == Init /\ [][Next]_vars


(***************************************************************************)
(* Properties of the dispatcher, under SpecDispatch.                       *)
(***************************************************************************)
\* the position in block.txdata of the transaction whose id text is tx_id
TxIndex(tx_id) == CHOOSE i \in 1..Len(block) : txid_to_string(block[i].txid) = tx_id

TaskHasTweak(i) == tasks[i].out.status = "ok" /\ tasks[i].out.tweaks # <<>>
TaskFailed(i) == tasks[i].out.status \in {"err", "panic"}
Returned == ret.kind = "ok" /\ dpc = "idle" /\ calls > 0

\* C1: the tweak sequence process_transactions returns lists the tweaks in
\* the order of their transactions in block.txdata, whatever the order in
\* which the tasks completed: the tweak of the transaction at position i
\* precedes the tweak of the transaction at position j whenever i < j.
C1_ChainOrder ==
    Returned =>
        /\ \A p \in 1..Len(ret.tweaks) :
               \E i \in 1..Len(block) : txid_to_string(block[i].txid) = ret.tweaks[p].tx_id
        /\ \A p, q \in 1..Len(ret.tweaks) :
               p < q => TxIndex(ret.tweaks[p].tx_id) < TxIndex(ret.tweaks[q].tx_id)

\* C1 witness: two tweaks are returned in chain order although the task of
\* the second transaction completed before the task of the first.
C1_Witness ==
    /\ Returned
    /\ Len(ret.tweaks) = 2
    /\ completion = <<2, 1>>
    /\ ret.tweaks[1].tx_id = txid_to_string(block[1].txid)

\* C2: a task that fails (the pipeline returns an error, or the task panics)
\* adds nothing to the result and aborts neither its siblings nor the block:
\* a decoded block is always answered with success, every task has run, and
\* the result holds the tweak of exactly the transactions whose pipeline
\* succeeded with a tweak.
C2_FailureIsolated ==
    /\ (ret.kind = "err" => tasks = <<>>)
    /\ Returned =>
           /\ \A i \in 1..Len(tasks) : tasks[i].st = "done"
           /\ \A i \in 1..Len(tasks) :
                  TaskHasTweak(i) =>
                      \E p \in 1..Len(ret.tweaks) : ret.tweaks[p] = tasks[i].out.tweaks[1]
           /\ \A i \in 1..Len(tasks) :
                  TaskFailed(i) =>
                      \A p \in 1..Len(ret.tweaks) :
                          ret.tweaks[p].tx_id # txid_to_string(block[i].txid)

\* C2 witness: the first task panicked, the second succeeded with a tweak,
\* and the dispatcher returned success with that tweak.
C2_Witness ==
    /\ Returned
    /\ Len(tasks) = 2
    /\ tasks[1].out.status = "panic"
    /\ TaskHasTweak(2)
    /\ ret.tweaks = tasks[2].out.tweaks


(***************************************************************************)
(* Properties of the orchestrator, under Spec.                             *)
(***************************************************************************)
StoreUnchanged == blocks' = blocks /\ tweaks' = tweaks

\* a remote lookup of the block being dispatched answered with a
\* transaction whose computed id is not the expected one
TxidMismatch == \E i \in 1..Len(tasks) : tasks[i].out.reason = "assert_txid"

\* C3: once a previous transaction fetched through the remote fallback has
\* a computed id different from the expected txid, the process aborts: no
\* block record and no tweak record is persisted for the block that holds
\* the transaction.
C3_MismatchAborts == [][TxidMismatch => StoreUnchanged]_vars

\* C4: indexing the same block hash twice persists its block record and its
\* tweak records only once: the store never holds two block records of one
\* hash, nor two tweak records of one transaction of one block hash.
C4_Idempotent ==
    /\ \A r1, r2 \in blocks : r1.hash = r2.hash => r1 = r2
    /\ \A p, q \in 1..Len(tweaks) :
           (tweaks[p].block_hash = tweaks[q].block_hash /\ tweaks[p].tx_id = tweaks[q].tx_id)
               => p = q

\* a pass of continuous mode computes its range
ContinuousPassBegins == pc = "loop" /\ pc' = "height" /\ startup.continuous_index

\* C5 as stated: in continuous mode, with H the highest stored height, the
\* range starts at H+1 (at 709632 when nothing is stored) and ends at the
\* tip height.
C5_StartsAfterHighest ==
    [][ContinuousPassBegins =>
          /\ blocks = {} => current_block' = FirstTaprootBlock
          /\ blocks # {} =>
                /\ \E r \in blocks : current_block' = r.height + 1
                /\ \A r \in blocks : r.height < current_block'
          /\ last_block' = tip]_vars

\* C5 amended: in continuous mode, with H the highest stored height, the
\* range starts at H itself (at 709632 when nothing is stored) and ends at
\* the tip height, or at its start when the tip is below the start.
C5_StartsAtHighest ==
    [][ContinuousPassBegins =>
          /\ blocks = {} => current_block' = FirstTaprootBlock
          /\ blocks # {} =>
                /\ \E r \in blocks : current_block' = r.height
                /\ \A r \in blocks : r.height <= current_block'
          /\ last_block' = (IF tip < current_block' THEN current_block' ELSE tip)]_vars

\* C5 witness: a continuous pass has just computed its range over a store
\* that holds blocks, the tip being above the highest stored height.
C5_Witness ==
    /\ pc = "height"
    /\ startup.continuous_index
    /\ blocks # {}
    /\ \E r \in blocks : current_block = r.height
    /\ \A r \in blocks : r.height <= current_block
    /\ current_block < tip
    /\ last_block = tip


(***************************************************************************)
(* Properties of the pipeline, under SpecPipeline.                         *)
(***************************************************************************)
Ran(i) == tasks[i].st = "done"
Invoked(i) == Ran(i) /\ tasks[i].invoked

IsSentinel(previous_output) == previous_output = [txid |-> 0, vout |-> 0 - 1]
HasSentinel(tx) == \E j \in 1..Len(tx.input) : IsSentinel(tx.input[j].previous_output)
FirstSentinel(tx) ==
    CHOOSE j \in 1..Len(tx.input) :
        /\ IsSentinel(tx.input[j].previous_output)
        /\ \A k \in 1..(j - 1) : ~IsSentinel(tx.input[k].previous_output)

\* what input j of the transaction of task i resolves to, given the cache
\* of the task and the answer the node gave for it
Resolved(i, j) == resolve_previous_script(tasks[i].chain, block[i].input[j], tasks[i].resp[j])

\* input j of the transaction of task i fails on its own: its previous
\* script does not resolve, is filtered out, or its key does not extract
InputFails(i, j) ==
    \/ Resolved(i, j).kind # "script"
    \/ witness_version(Resolved(i, j).script) >= 2
    \/ block[i].input[j].unlock = Malformed

\* C6 as stated: for every transaction with an input whose previous output
\* is the null sentinel, whatever its position and whatever the other
\* inputs resolve to, process_transaction yields a success with zero tweaks.
C6_SentinelEmptySuccess ==
    \A i \in 1..Len(tasks) :
        (Invoked(i) /\ HasSentinel(block[i])) =>
            (tasks[i].out.status = "ok" /\ tasks[i].out.tweaks = <<>>)

\* C6 amended: a transaction with a null-sentinel input never yields a
\* tweak, and no input at or after its first sentinel input is looked up;
\* the result is a success with zero tweaks exactly when no input before
\* the first sentinel input fails, and that input's failure otherwise.
C6_SentinelNoTweak ==
    \A i \in 1..Len(tasks) :
        (Invoked(i) /\ HasSentinel(block[i])) =>
            LET n == FirstSentinel(block[i])
            IN  /\ tasks[i].out.tweaks = <<>>
                /\ Len(tasks[i].out.cache_lookups) < n
                /\ tasks[i].out.agg = <<>>
                /\ (tasks[i].out.status = "ok") <=> (\A j \in 1..(n - 1) : ~InputFails(i, j))
                /\ tasks[i].out.status \in {"ok", "err", "panic"}

\* C6 witness: the second input is the sentinel, the first resolved and
\* gave a key, and the run ended as a success with zero tweaks after one
\* lookup.
C6_Witness ==
    /\ Len(tasks) = 1 /\ Invoked(1)
    /\ Len(block[1].input) = 2
    /\ IsSentinel(block[1].input[2].previous_output)
    /\ tasks[1].out.status = "ok"
    /\ tasks[1].out.tweaks = <<>>
    /\ Len(tasks[1].out.keys) = 1
    /\ Len(tasks[1].out.cache_lookups) = 1


\* input j of the transaction of task i resolves to a script of witness
\* version 2 or higher
ResolvesAboveV1(i, j) ==
    /\ ~IsSentinel(block[i].input[j].previous_output)
    /\ Resolved(i, j).kind = "script"
    /\ witness_version(Resolved(i, j).script) >= 2

\* C7: a resolved previous script of witness version 0 or 1, or of no
\* witness version, is never rejected by is_segwit_gt_v1 (a run whose
\* resolved scripts are all such does not end on the filter); a transaction
\* with an input, at any position, whose resolved previous script has
\* witness version 2 or higher contributes no tweak to the block result.
C7_ConsensusFilter ==
    /\ \A s \in Scripts : witness_version(s) \in {NoWitnessVersion, 0, 1} => ~is_segwit_gt_v1(s)
    /\ \A i \in 1..Len(tasks) :
           Invoked(i) =>
               /\ (\A k \in 1..Len(tasks[i].out.scripts) :
                       witness_version(tasks[i].out.scripts[k]) \in {NoWitnessVersion, 0, 1})
                       => tasks[i].out.reason # "SegWitVersionGE2"
               /\ (\E j \in 1..Len(block[i].input) : ResolvesAboveV1(i, j)) =>
                       /\ tasks[i].out.tweaks = <<>>
                       /\ Returned =>
                              \A p \in 1..Len(ret.tweaks) :
                                  ret.tweaks[p].tx_id # txid_to_string(block[i].txid)

\* C7 witness: the first input resolved to a taproot script and gave a key,
\* the second resolved to witness version 2 or higher, and the dispatcher
\* returned without a tweak.
C7_Witness ==
    /\ Returned /\ Len(tasks) = 1 /\ Invoked(1)
    /\ Len(block[1].input) = 2
    /\ Len(tasks[1].out.scripts) = 2
    /\ tasks[1].out.scripts[1] = "p2tr"
    /\ Len(tasks[1].out.keys) = 1
    /\ ResolvesAboveV1(1, 2)
    /\ ret.tweaks = <<>>

\* C8: a transaction with no output that is a taproot output with a valid
\* x-only key never has the pipeline invoked: no cache lookup and no remote
\* lookup is issued for it, and it contributes an empty result.
C8_NoTaprootNoPipeline ==
    \A i \in 1..Len(tasks) :
        (Ran(i) /\ ~(\E k \in 1..Len(block[i].output) : block[i].output[k] = "p2tr")) =>
            /\ ~tasks[i].invoked
            /\ tasks[i].out.cache_lookups = <<>>
            /\ tasks[i].out.lookups = <<>>
            /\ \A j \in 1..Len(block[i].input) : tasks[i].resp[j] = NoResponse
            /\ tasks[i].out.status = "ok"
            /\ tasks[i].out.tweaks = <<>>
            /\ Returned => ret.tweaks = <<>>

\* C8 witness: a transaction whose only output is a taproot output with an
\* invalid key, spending an outpoint that misses the cache, was dispatched
\* and the dispatcher returned empty.
C8_Witness ==
    /\ Returned /\ Len(tasks) = 1 /\ Ran(1)
    /\ block[1].output = <<"p2tr_badkey">>
    /\ ~IsSentinel(block[1].input[1].previous_output)
    /\ find_previous_script(tasks[1].chain,
                            txid_to_string(block[1].input[1].previous_output.txid),
                            block[1].input[1].previous_output.vout) = <<>>
    /\ ret.tweaks = <<>>


\* the entries handed to the last set_previous_scripts
Entries == IF last_set = <<>> THEN <<>> ELSE last_set[1]
InEntries(t, v) == \E k \in 1..Len(Entries) : Entries[k].txid = t /\ Entries[k].vout = v
LookupKeys == {txid_to_string(t) : t \in PrevTxids \cup {NullTxid}} \X (0..MaxVout)

\* the examined outpoints of task i that are not among the entries
Misses(i) == SelectSeq(tasks[i].out.cache_lookups, LAMBDA po : ~InEntries(po[1], po[2]))

\* C9: after set_previous_scripts(entries), find_previous_script(txid, vout)
\* returns an entry iff entries holds one with exactly that (txid, vout),
\* and the entry returned has that txid and vout; only the entries of the
\* last set count; an examined input that misses (or finds no cache set)
\* issues the remote lookup, and one that hits issues none.
C9_CacheCorrect ==
    /\ \A key \in LookupKeys :
           LET found == find_previous_script(chain, key[1], key[2])
           IN  /\ (found # <<>>) <=> InEntries(key[1], key[2])
               /\ found # <<>> =>
                      /\ found[1].txid = key[1] /\ found[1].vout = key[2]
                      /\ \E k \in 1..Len(Entries) : Entries[k] = found[1]
    /\ \A i \in 1..Len(tasks) :
           Invoked(i) =>
               /\ \A j \in 1..Len(tasks[i].out.cache_lookups) :
                      /\ tasks[i].out.cache_lookups[j] =
                             <<txid_to_string(block[i].input[j].previous_output.txid),
                               block[i].input[j].previous_output.vout>>
                      /\ (tasks[i].resp[j] = NoResponse) <=>
                             InEntries(tasks[i].out.cache_lookups[j][1],
                                       tasks[i].out.cache_lookups[j][2])
               /\ tasks[i].out.lookups = [k \in 1..Len(Misses(i)) |-> Misses(i)[k][1]]

\* C9 witness: the cache was set, and a run examined two inputs of which
\* one hit the cache and the other went to the remote lookup.
C9_Witness ==
    /\ Len(tasks) = 1 /\ Invoked(1)
    /\ Entries # <<>>
    /\ Len(tasks[1].out.cache_lookups) = 2
    /\ Len(tasks[1].out.lookups) = 1
    /\ tasks[1].resp[1] = NoResponse
    /\ tasks[1].resp[2] # NoResponse

(***************************************************************************)
(* Properties of the store, under Spec.                                    *)
(***************************************************************************)
PersistStep == pc = "dispatch" /\ pc' = "height"
TweakRowsOf(rows, hash) == {p \in 1..Len(rows) : rows[p].block_hash = hash}

\* C10: every persisted block record has has_tweaks = true iff the
\* dispatcher returned at least one tweak for that block, iff at least one
\* tweak record was written for its hash in that step; a block with no
\* taproot output at all yields an empty tweak list, no tweak record and
\* has_tweaks = false.
C10_HasTweaksFlag ==
    [][PersistStep =>
          /\ \A r \in blocks' \ blocks :
                 /\ r.hash = block_hash /\ r.height = current_block
                 /\ r.has_tweaks <=> (block_tweaks # <<>>)
                 /\ r.has_tweaks <=> (TweakRowsOf(tweaks', r.hash) # TweakRowsOf(tweaks, r.hash))
          /\ \A r \in blocks' : r.has_tweaks <=> (TweakRowsOf(tweaks', r.hash) # {})
          /\ (\A i \in 1..Len(block) : \A k \in 1..Len(block[i].output) :
                  block[i].output[k] = "other") =>
                 /\ block_tweaks = <<>>
                 /\ tweaks' = tweaks
                 /\ \A r \in blocks' \ blocks : ~r.has_tweaks]_vars

\* C10 witness: the store holds a block record with has_tweaks = true and
\* tweak records of its hash, and a block record with has_tweaks = false
\* and none.
C10_Witness ==
    /\ \E r \in blocks : r.has_tweaks /\ TweakRowsOf(tweaks, r.hash) # {}
    /\ \E r \in blocks : ~r.has_tweaks /\ TweakRowsOf(tweaks, r.hash) = {}


(***************************************************************************)
(* Further properties of the pipeline, under SpecPipeline.                 *)
(***************************************************************************)
TweaksOfTx(seq, i) == {p \in 1..Len(seq) : seq[p].tx_id = txid_to_string(block[i].txid)}

\* C11: a transaction contributes at most one tweak: the result of
\* process_transaction has length 0 or 1, the sequence process_transactions
\* returns holds at most one tweak for each transaction of the block, and
\* the tx_id of a tweak is the id of its transaction.
C11_AtMostOneTweak ==
    /\ \A i \in 1..Len(tasks) :
           Ran(i) =>
               /\ Len(tasks[i].out.tweaks) \in {0, 1}
               /\ \A p \in 1..Len(tasks[i].out.tweaks) :
                      tasks[i].out.tweaks[p].tx_id = txid_to_string(block[i].txid)
    /\ Returned =>
           /\ \A i \in 1..Len(block) : Cardinality(TweaksOfTx(ret.tweaks, i)) <= 1
           /\ \A p \in 1..Len(ret.tweaks) :
                  \E i \in 1..Len(block) : p \in TweaksOfTx(ret.tweaks, i)

\* C11 witness: a transaction with two inputs, each giving a key, was
\* processed and the dispatcher returned exactly one tweak, with its id.
C11_Witness ==
    /\ Returned /\ Len(tasks) = 1 /\ Invoked(1)
    /\ Len(block[1].input) = 2
    /\ Len(tasks[1].out.keys) = 2
    /\ Len(ret.tweaks) = 1
    /\ ret.tweaks[1].tx_id = txid_to_string(block[1].txid)


\* C12: a tweak is emitted only for a transaction with at least one
\* contributing public key: when key extraction gives no key for any input
\* (the key list handed to the aggregation is empty), the pipeline emits no
\* tweak and ends as a success with an empty result.
C12_NoKeyNoTweak ==
    \A i \in 1..Len(tasks) :
        Invoked(i) =>
            /\ tasks[i].out.tweaks # <<>> => Len(tasks[i].out.keys) >= 1
            /\ (tasks[i].out.agg # <<>> /\ tasks[i].out.keys = <<>>) =>
                   /\ tasks[i].out.agg[1].pubkeys = <<>>
                   /\ tasks[i].out.status = "ok"
                   /\ tasks[i].out.tweaks = <<>>
                   /\ Returned => ret.tweaks = <<>>

\* C12 witness: both inputs of a transaction resolved and gave no key, the
\* aggregation was called with an empty key list, and the dispatcher
\* returned success without a tweak.
C12_Witness ==
    /\ Returned /\ Len(tasks) = 1 /\ Invoked(1)
    /\ Len(block[1].input) = 2
    /\ Len(tasks[1].out.scripts) = 2
    /\ tasks[1].out.keys = <<>>
    /\ tasks[1].out.agg # <<>>
    /\ tasks[1].out.status = "ok"
    /\ ret.tweaks = <<>>


(***************************************************************************)
(* Further properties of the orchestrator, under Spec.                     *)
(***************************************************************************)
\* the running process was given a start height above 0 and no end height
CountedRun ==
    /\ pc \in {"height", "dispatch"}
    /\ argv.start_height # <<>> /\ argv.start_height[1] > 0
    /\ argv.end_height = <<>>
BlockCount == IF argv.blocks # <<>> THEN argv.blocks[1] ELSE DefaultBlocks

\* the while loop ends on its condition and the process returns
RangeExhausted == pc = "height" /\ ~(current_block <= last_block) /\ pc' = "off"

\* C13: in one-shot mode with a start height S > 0, no end height and a
\* block count N (10 when no count is given), the orchestrator visits
\* exactly the N heights S .. S+N-1 before it exits: it never goes through
\* a height outside them, and when its range is exhausted it has gone
\* through all N.
C13_VisitsBlockCount ==
    [][CountedRun =>
          /\ \A k \in 1..Len(visited') :
                 /\ visited'[k] = argv.start_height[1] + k - 1
                 /\ visited'[k] <= argv.start_height[1] + BlockCount - 1
          /\ RangeExhausted => Len(visited) = BlockCount]_vars


InFlight == {i \in 1..Len(tasks) : tasks[i].st # "done"}
DispatchStep == pc = "height" /\ pc' = "dispatch"

\* C14: the orchestrator is sequential across blocks: process_transactions
\* returns only after every task it spawned (one per transaction) has
\* completed, whether it succeeded, failed or panicked, so no task is in
\* flight when the block is persisted or when the next block is
\* dispatched; a dispatched task is never cancelled.
C14_SequentialBlocks ==
    [][/\ PersistStep =>
             /\ Len(tasks) = Len(block)
             /\ InFlight = {}
             /\ joined = Len(tasks)
       /\ DispatchStep => (tasks = <<>> /\ dpc = "idle")
       /\ pc # "dispatch" => tasks = <<>>
       /\ (pc = "dispatch" /\ ~PersistStep) =>
             /\ pc' = "dispatch"
             /\ Len(tasks') >= Len(tasks)
             /\ \A i \in 1..Len(tasks) : tasks[i].st = "done" => tasks'[i] = tasks[i]]_vars

\* C14 witness: a block of two transactions is about to be persisted, both
\* tasks have completed, the second before the first, and one of them
\* panicked.
C14_Witness ==
    /\ pc = "dispatch" /\ DispatchDone
    /\ Len(tasks) = 2 /\ InFlight = {}
    /\ completion = <<2, 1>>
    /\ \E i \in 1..2 : tasks[i].out.status = "panic"


Max(a, b) == IF a >= b THEN a ELSE b
\* the highest height stored, 0 when the store is empty
Highest == CHOOSE h \in {0} \cup {r.height : r \in blocks} :
               \A r \in blocks : r.height <= h

\* C15 as stated: each pass of continuous mode computes its range as
\* start = max(highest stored height, 709632) and end = tip height, for
\* every stored highest height (also 0 < highest < 709632) and every tip.
C15_StartIsMax ==
    [][ContinuousPassBegins =>
          /\ current_block' = Max(Highest, FirstTaprootBlock)
          /\ last_block' = tip]_vars

\* C15 amended: each pass of continuous mode computes its range as
\* start = highest stored height when that is above 0 (also when it is
\* below 709632), start = 709632 when nothing is stored, and
\* end = max(tip height, start).
C15_StartIsHighest ==
    [][ContinuousPassBegins =>
          /\ Highest > 0 => current_block' = Highest
          /\ Highest = 0 => current_block' = FirstTaprootBlock
          /\ Highest >= FirstTaprootBlock => current_block' = Max(Highest, FirstTaprootBlock)
          /\ last_block' = Max(tip, current_block')]_vars

\* C15 witness: a continuous pass has computed its range over a store
\* whose highest height is below 709632, and starts at that height.
C15_Witness ==
    /\ pc = "height" /\ startup.continuous_index
    /\ visited = <<>>
    /\ Highest > 0 /\ Highest < FirstTaprootBlock
    /\ current_block = Highest
    /\ last_block = Max(tip, current_block)


DispatcherUntouched == dpc' = "idle" /\ tasks' = <<>> /\ calls' = calls

\* C16: when get_block_hash reports the height as out of range, the pass
\* stops and the process does not end with an error: nothing is persisted
\* in that step, no block body is fetched and nothing is dispatched, and
\* the orchestrator terminates normally (one-shot) or sleeps, after which
\* it resolves the range again (continuous).
C16_OutOfRangeEndsPass ==
    [][/\ node_reply' = "out_of_range" /\ node_reply' # node_reply =>
             /\ pc = "height" /\ current_block <= last_block /\ current_block > tip
             /\ StoreUnchanged
             /\ DispatcherUntouched
             /\ exit_status' # "fatal"
             /\ startup.continuous_index => (pc' = "sleep" /\ exit_status' = exit_status)
             /\ ~startup.continuous_index => (pc' = "off" /\ exit_status' = "ok")
       /\ pc = "sleep" => pc' \in {"sleep", "loop"}
       /\ (pc = "loop" /\ startup.continuous_index /\ pc' = "height") =>
             current_block' = auto_index(blocks, tip)[1]]_vars

\* C16 witness: a one-shot run that persisted a block was stopped by an
\* out-of-range answer at a height above the tip and ended normally, the
\* store holding no record above the tip.
C16_Witness ==
    /\ pc = "off"
    /\ node_reply = "out_of_range"
    /\ exit_status = "ok"
    /\ blocks # {}
    /\ \A r \in blocks : r.height <= tip

NodeFailure == {"blockcount_err", "hash_err", "block_err"}

\* C17: a failure resolving the block count, a block hash (other than the
\* out-of-range answer) or a block body ends the whole process, and on that
\* exit nothing is persisted for the height being handled, the records of
\* earlier heights staying as they are.
C17_NodeFailureIsFatal ==
    [][(node_reply' \in NodeFailure /\ pc # "off") =>
          /\ pc' = "off"
          /\ exit_status' = "fatal"
          /\ StoreUnchanged
          /\ DispatcherUntouched]_vars

\* C17 witness: the process has ended on a failed block body fetch after it
\* had persisted an earlier height, whose record is in the store.
C17_Witness ==
    /\ pc = "off" /\ exit_status = "fatal"
    /\ node_reply = "block_err"
    /\ blocks # {}


\* the loop ends its iteration for a height whose hash the store does not
\* hold straight from the top of the loop: the dispatcher gave no Ok
SkipStep == Unprocessed /\ Len(visited') = Len(visited) + 1

\* C18: when the dispatcher returns a failure for the whole block (the
\* block does not decode), the block is skipped: no block record and no
\* tweak record is persisted for it, the process does not exit, and the
\* cursor advances to the next height of the same range, which is handled
\* by the same loop.
C18_DecodeFailureSkips ==
    [][/\ SkipStep =>
             /\ ret' = [kind |-> "err", tweaks |-> <<>>]
             /\ StoreUnchanged
             /\ pc' = "height" /\ exit_status' = exit_status
             /\ current_block' = current_block + 1
             /\ last_block' = last_block /\ startup' = startup
             /\ tasks' = <<>>
       /\ (ret'.kind = "err" /\ ret.kind # "err") => SkipStep]_vars

\* C18 witness: the loop skipped a height whose block did not decode, left
\* no record of it, and has persisted the next height.
C18_Witness ==
    /\ pc = "height"
    /\ Len(visited) = 2
    /\ \A r \in blocks : r.height # visited[1]
    /\ \E r \in blocks : r.height = visited[2] /\ r.hash = node_block_hash(visited[2])
    /\ tweaks = <<>>


\* the end of the range the command line asks for
GivenEnd ==
    IF argv.end_height # <<>> THEN argv.end_height[1]
    ELSE argv.start_height[1] + BlockCount

\* C19: whenever a start height is given the run is one-shot: it goes
\* through heights of [start, end] only, in strictly increasing order and
\* each at most once, and it terminates instead of sleeping and resolving
\* its range again; only a run whose start height is omitted sleeps and
\* repeats from range resolution.
C19_GivenStartIsOneShot ==
    argv.start_height # <<>> =>
        /\ pc # "sleep"
        /\ \A k \in 1..Len(visited) :
               /\ visited[k] >= argv.start_height[1]
               /\ visited[k] <= GivenEnd
               /\ k > 1 => visited[k] > visited[k - 1]


\* what the cache must hold for the block in hand: nothing without
\* --seek-prev-outs, else the batch get_prevouts answered for this block
CacheOfBlock == IF startup.seek_prev_outs THEN fetched ELSE <<>>

\* C20: at every invocation of the dispatcher for a block B the cache of
\* the Chain context is absent (bulk fetch disabled) or exactly the batch
\* fetched for B: it is replaced before B is dispatched, whatever earlier
\* blocks or passes left in it, and while B is being processed it stays as
\* it is, every per-transaction unit working on an equal copy.
C20_CacheFresh ==
    [][/\ (DispatchStep \/ SkipStep) =>
             /\ startup.seek_prev_outs => fetched' # <<>>
             /\ chain'.previous_scripts = CacheOfBlock'
       /\ pc' = "dispatch" =>
             /\ chain'.previous_scripts = CacheOfBlock'
             /\ \A i \in 1..Len(tasks') : tasks'[i].chain = chain'
       /\ (pc = "dispatch" /\ pc' = "dispatch") => chain' = chain]_vars

\* C20 witness: under --seek-prev-outs a second block of the same pass is
\* being processed, a unit of it has run, and the cache is the batch
\* fetched for it.
C20_Witness ==
    /\ pc = "dispatch"
    /\ startup.seek_prev_outs
    /\ Len(visited) >= 1
    /\ \E r \in blocks : r.height = visited[Len(visited)]
    /\ \E i \in 1..Len(tasks) : tasks[i].st = "done"
    /\ fetched # <<>>
    /\ chain.previous_scripts = fetched


(***************************************************************************)
(* Further properties of the pipeline, under SpecPipeline.                 *)
(***************************************************************************)
\* the run of task i reached the aggregation
Aggregated(i) == Invoked(i) /\ tasks[i].out.agg # <<>>
\* the keys collected by task i are some, and sum to the identity
SumIsIdentity(i) ==
    /\ tasks[i].out.keys # <<>>
    /\ SumSeq(tasks[i].out.keys) % KeyOrder = 0

\* C21: for a transaction whose collected input keys sum to the curve
\* identity (the aggregation answers InvalidPublicKeySum) the pipeline
\* yields an empty success, not an error; any other failure of the
\* aggregation is an error of that transaction, with no tweak, and the
\* dispatcher still returns Ok.
C21_IdentitySumIsEmptySuccess ==
    \A i \in 1..Len(tasks) :
        Aggregated(i) =>
            /\ SumIsIdentity(i) =>
                   /\ tasks[i].out.status = "ok"
                   /\ tasks[i].out.tweaks = <<>>
            /\ (~SumIsIdentity(i) /\ tasks[i].out.keys # <<>> /\ tasks[i].ecfail) =>
                   /\ tasks[i].out.status = "err"
                   /\ tasks[i].out.tweaks = <<>>
            /\ (dpc = "idle" /\ calls > 0) =>
                   /\ ret.kind = "ok"
                   /\ (tasks[i].out.status = "err" \/ SumIsIdentity(i)) =>
                          \A k \in 1..Len(ret.tweaks) :
                              ret.tweaks[k].tx_id # txid_to_string(block[i].txid)

\* C21 witness: the two inputs of a transaction gave keys that sum to the
\* identity, the aggregation was reached and the dispatcher returned a
\* success without a tweak.
C21_Witness ==
    /\ Returned /\ Len(tasks) = 1 /\ Aggregated(1)
    /\ Len(tasks[1].out.keys) = 2
    /\ SumIsIdentity(1)
    /\ tasks[1].out.status = "ok"
    /\ ret.tweaks = <<>>


\* the keys of the inputs whose extraction found one, in input order
RECURSIVE FoundKeys(_)
FoundKeys(inputs) ==
    IF inputs = <<>> THEN <<>>
    ELSE (IF Head(inputs).unlock \in Keys THEN <<Head(inputs).unlock>> ELSE <<>>)
             \o FoundKeys(Tail(inputs))

\* C22: whenever the pipeline reaches the aggregation, the outpoint list
\* handed to it is exactly the declared inputs of the transaction as
\* (txid, vout) pairs in input order, the inputs whose key extraction gave
\* none included, and the key list holds exactly the keys of the inputs
\* whose extraction found one, in input order.
C22_AggregationArguments ==
    \A i \in 1..Len(tasks) :
        Aggregated(i) =>
            LET a == tasks[i].out.agg[1]
                ins == block[i].input
            IN  /\ Len(a.outpoints) = Len(ins)
                /\ \A j \in 1..Len(ins) :
                       /\ a.outpoints[j][1] = txid_to_string(ins[j].previous_output.txid)
                       /\ a.outpoints[j][2] = ins[j].previous_output.vout
                /\ a.pubkeys = FoundKeys(ins)

\* C22 witness: of the two inputs of a transaction the first gave no key
\* and the second gave one; the aggregation got both outpoints and the one
\* key.
C22_Witness ==
    /\ Len(tasks) = 1 /\ Aggregated(1)
    /\ Len(block[1].input) = 2
    /\ block[1].input[1].unlock = NoKey
    /\ block[1].input[2].unlock \in Keys
    /\ block[1].input[1].previous_output # block[1].input[2].previous_output
    /\ Len(tasks[1].out.agg[1].outpoints) = 2
    /\ tasks[1].out.agg[1].pubkeys = <<block[1].input[2].unlock>>


(***************************************************************************)
(* Further properties of the store, under Spec.                            *)
(***************************************************************************)
\* C23: referential integrity of the store: after every completed
\* per-height step, over any sequence of passes and also when the hash at
\* a recorded height has changed, the block_hash of every persisted tweak
\* record is the hash of a persisted block record.
C23_TweaksHaveBlock ==
    \A p \in 1..Len(tweaks) : \E r \in blocks : r.hash = tweaks[p].block_hash


\* a pass of continuous mode is about to begin or has just ended
PassBoundary == pc \in {"loop", "sleep"} /\ startup.continuous_index

\* C24: no gaps in continuous mode: starting from an empty store and
\* running continuous-mode passes only, at every pass boundary every
\* height from 709632 to the highest stored height has a block record.
C24_NoGaps ==
    (PassBoundary /\ ~one_shot_ran) =>
        \A h \in FirstTaprootBlock..get_highest_block(blocks) :
            \E r \in blocks : r.height = h

=============================================================================
